---- MODULE Spec2Model ----
(***************************************************************************)
(* The HTTP REST dispatcher of go-msvc/http: server.ServeHTTP              *)
(* (src/server/server.go).  One request is a small state machine: path     *)
(* parsing, registry lookup, body decoding, validation, handler            *)
(* invocation, response encoding and the deferred error translator.        *)
(* Strings are sequences of one-character tokens, so that splitting,       *)
(* joining, JSON encoding and decoding are computed, not assumed.          *)
(***************************************************************************)
EXTENDS Integers, Sequences, FiniteSets, TLC

\* ------------------------------------------------------------------ bounds
NumReq == 2        \* request slots the transport may have open
MaxPathLen == 3    \* longest URL path, in characters
MaxPort == 5       \* largest port number tried, and the most negative

Reqs == 1..NumReq

\* ------------------------------------------------- net/http status constants
StatusOK == 200
StatusBadRequest == 400
StatusNotFound == 404
StatusInternalServerError == 500

\* The codes http.StatusText knows (net/http status table).
RecognizedCodes ==
    {100, 101, 102, 103} \cup (200..208) \cup {226} \cup (300..305) \cup {307, 308}
    \cup (400..418) \cup (421..426) \cup {428, 429, 431, 451}
    \cup (500..508) \cup {510, 511}

\* http.StatusText(code): "" for a code the table does not hold.
StatusText(code) ==
    IF code \notin RecognizedCodes THEN ""
    ELSE CASE code = 101 -> "Switching Protocols"
           [] code = 200 -> "OK"
           [] code = 302 -> "Found"
           [] code = 400 -> "Bad Request"
           [] code = 404 -> "Not Found"
           [] code = 409 -> "Conflict"
           [] code = 500 -> "Internal Server Error"
           [] code = 503 -> "Service Unavailable"
           [] OTHER -> "status"

\* ------------------------------------------------------------ error values
\* err == nil
NoErr == [k |-> "nil", code |-> 0, msg |-> <<>>]

\* errors.Errorc(code, msg): a structured error (errors.IError) with a code.
Errorc(code, msg) == [k |-> "IError", code |-> code, msg |-> msg]

\* An error that is not an errors.IError (io.EOF, a json error, errors.New).
PlainError(msg) == [k |-> "error", code |-> 0, msg |-> msg]

\* e.Code() of an error that is asserted to errors.IError; 0 when it has none.
CodeOf(e) == IF e.k = "IError" THEN e.code ELSE 0

\* err.Error(), also what %+v prints of it in a message.
ErrText(e) == e.msg

\* errors.Wrapf(err, format, ...): a structured error that keeps the code of
\* the error it wraps; its text is the new message, then the wrapped text.
Wrapf(e, msg) == [k |-> "IError", code |-> CodeOf(e), msg |-> msg \o <<", because ">> \o ErrText(e)]

EOF == PlainError(<<"EOF">>)

\* ------------------------------------------------------------------ strings
\* strings.SplitN(s, "/", 2): s cut at its first "/", or s alone.
SplitN2(s) ==
    IF \E i \in 1..Len(s) : s[i] = "/"
    THEN LET i == CHOOSE i \in 1..Len(s) :
                     s[i] = "/" /\ \A j \in 1..(i - 1) : s[j] # "/"
         IN <<SubSeq(s, 1, i - 1), SubSeq(s, i + 1, Len(s))>>
    ELSE <<s>>

RECURSIVE Join(_, _)
\* strings.Join(names, sep)
Join(names, sep) ==
    IF Len(names) = 0 THEN <<>>
    ELSE IF Len(names) = 1 THEN names[1]
    ELSE names[1] \o sep \o Join(Tail(names), sep)

\* --------------------------------------------------- the operation registry
\* The registered operations, in registry order (ms.MicroService).  ReqType()
\* is "none" for an operation that declares no request type.
Opers ==
    << [name |-> <<"a">>,      reqType |-> "none"],
       [name |-> <<"b">>,      reqType |-> "GetReq"],
       [name |-> <<"a", "b">>, reqType |-> "CreateReq"],
       [name |-> <<"b", "a">>, reqType |-> "UpdateReq"] >>

NoOper == 0

\* s.ms.Oper(name): the index of the operation, NoOper when it is not registered.
Oper(name) ==
    IF \E i \in 1..Len(Opers) : Opers[i].name = name
    THEN CHOOSE i \in 1..Len(Opers) : Opers[i].name = name
    ELSE NoOper

\* s.ms.OperNames(): every registered name, in registry order.
OperNames == [i \in 1..Len(Opers) |-> Opers[i].name]

\* oper.ReqType()
ReqType(o) == Opers[o].reqType

\* ---------------------------------------------------------- request values
\* The nil interface{} a handler gets when the operation has no request type.
Absent == [t |-> "nil", name |-> <<>>]

\* reflect.New(oper.ReqType()): a fresh zero value of the request type.
Zero(type) == [t |-> type, name |-> <<>>]

\* Does a pointer to the request type implement ms.Validator?
HasValidator(type) == type \in {"CreateReq", "UpdateReq"}

\* validator.Validate() of the registered request types: CreateReq wants a
\* name, UpdateReq refuses one name with a structured error of its own code.
ValidateReq(v) ==
    IF v.t = "CreateReq" /\ v.name = <<>> THEN PlainError(<<"missing name">>)
    ELSE IF v.t = "UpdateReq" /\ v.name = <<"b", "a", "d">>
         THEN Errorc(409, <<"name is taken">>)
    ELSE NoErr

\* ------------------------------------------------------------ JSON decoding
StringLits == {"\"name\"", "\"other\"", "\"\"", "\"x\"", "\"bad\""}

\* The characters of a JSON string literal.
Unquote(lit) ==
    CASE lit = "\"name\"" -> <<"n", "a", "m", "e">>
      [] lit = "\"other\"" -> <<"o", "t", "h", "e", "r">>
      [] lit = "\"x\"" -> <<"x">>
      [] lit = "\"bad\"" -> <<"b", "a", "d">>
      [] OTHER -> <<>>

IsSpace(tok) == tok = " "

\* May tok stand at position i of a one-member object  { "key" : value }  ?
ValidAt(i, tok) ==
    CASE i = 1 -> tok = "{"
      [] i = 2 -> tok \in StringLits \cup {"}"}
      [] i = 3 -> tok = ":"
      [] i = 4 -> tok \in StringLits \cup {"7", "null"}
      [] OTHER -> tok = "}"

\* json.NewDecoder(body).Decode(ptr) into a fresh value of the type: the
\* error (NoErr, io.EOF or a json error) and the value left behind.
Decode(type, body) ==
    LET s == SelectSeq(body, LAMBDA tok : ~IsSpace(tok))
        zero == Zero(type)
        n == IF Len(s) >= 2 /\ s[2] = "}" THEN 2 ELSE 5
        bad == {i \in 1..n : i <= Len(s) /\ ~ValidAt(i, s[i])}
    IN  IF s = <<>> THEN [err |-> EOF, val |-> zero]
        ELSE IF s[1] = "null" THEN [err |-> NoErr, val |-> zero]
        ELSE IF s[1] \in StringLits \cup {"7"}
             THEN [err |-> PlainError(<<"json: cannot unmarshal into Go value of type ", type>>),
                   val |-> zero]
        ELSE IF bad # {}
             THEN [err |-> PlainError(<<"invalid character">>), val |-> zero]
        ELSE IF Len(s) < n
             THEN [err |-> PlainError(<<"unexpected EOF">>), val |-> zero]
        ELSE IF n = 2 \/ s[2] # "\"name\"" \/ s[4] = "null"
             THEN [err |-> NoErr, val |-> zero]
        ELSE IF s[4] = "7"
             THEN [err |-> PlainError(<<"json: cannot unmarshal number into Go struct field ",
                                        type, ".name of type string">>),
                   val |-> zero]
        ELSE [err |-> NoErr, val |-> [t |-> type, name |-> Unquote(s[4])]]

\* ------------------------------------------------------------ JSON encoding
\* The nil interface{} response.
NilRes == [t |-> "nil", v |-> <<>>]

RECURSIVE Escape(_)
\* The characters of a string inside a JSON string literal.
Escape(s) ==
    IF s = <<>> THEN <<>>
    ELSE (IF Head(s) \in {"\"", "\\"} THEN <<"\\", Head(s)>> ELSE <<Head(s)>>)
         \o Escape(Tail(s))

\* json.Marshal(res): the bytes and the error.
Marshal(res) ==
    CASE res.t = "string" ->
           [bytes |-> <<"\"">> \o Escape(res.v) \o <<"\"">>, err |-> NoErr]
      [] res.t = "object" ->
           [bytes |-> <<"{", "\"", "o", "k", "\"", ":">> \o res.v \o <<"}">>, err |-> NoErr]
      [] res.t \in {"nilptr", "nil"} ->
           [bytes |-> <<"null">>, err |-> NoErr]
      [] OTHER ->
           [bytes |-> <<>>, err |-> PlainError(<<"json: unsupported type: ", res.t>>)]

\* ------------------------------------------------- the http.ResponseWriter
HeaderNames == {"Content-Type", "X-Content-Type-Options"}

\* A response nothing was written to.  header is the live header map, sent
\* the headers as they stood when the status line was written.
NewWriter ==
    [wroteHeader |-> FALSE, status |-> 0,
     header |-> [h \in HeaderNames |-> ""], sent |-> [h \in HeaderNames |-> ""],
     body |-> <<>>]

\* w.Header().Set(k, v)
HeaderSet(w, k, v) == [w EXCEPT !.header = [@ EXCEPT ![k] = v]]

\* w.WriteHeader(code): the first call fixes the status line and the headers.
WriteHeader(w, code) ==
    IF w.wroteHeader THEN w
    ELSE [w EXCEPT !.wroteHeader = TRUE, !.status = code, !.sent = w.header]

\* w.Write(bytes): an implicit WriteHeader(200) when none was written.
Write(w, bytes) ==
    LET h == WriteHeader(w, StatusOK)
    IN  [h EXCEPT !.body = @ \o bytes]

\* http.Error(w, text, code)
HttpError(w, text, code) ==
    LET h1 == HeaderSet(w, "Content-Type", "text/plain; charset=utf-8")
        h2 == HeaderSet(h1, "X-Content-Type-Options", "nosniff")
        h3 == WriteHeader(h2, code)
    IN  Write(h3, text \o <<"\n">>)

\* The status the client sees: the one written, or the transport's default.
ResponseStatus(w) == IF w.wroteHeader THEN w.status ELSE StatusOK

\* -------------------------------------------- the pipeline's own decisions
\* One err variable for the whole server, shared by every call.
ErrSlot_Shared(r) == 1

\* The err variable of a call of ServeHTTP: declared in the call, its own.
ErrSlot(r) == r

\* A failed handler that is tried again instead of being reported.
AfterHandlerError_Retry == "handle"

\* Where a failed handler leaves the pipeline: return, to the translator.
AfterHandlerError == "translate"

\* The test of the split path: no "/", text before it, or nothing after it.
ParseFails(names) == Len(names) < 2 \/ Len(names[1]) # 0 \/ Len(names[2]) = 0

\* A lookup miss reported without the known names.
UnknownOperation_NoNames(name) ==
    Errorc(StatusNotFound, <<"unknown operation ">> \o name)

\* The error of a lookup miss: not found, with every known name.
UnknownOperation(name) ==
    Errorc(StatusNotFound,
           <<"unknown operation ">> \o name \o <<" != ">> \o Join(OperNames, <<"|">>))

\* An operation taken to declare a request type whatever ReqType() returns.
DeclaresRequest_Always(type) == TRUE

\* Does the operation declare a request type (oper.ReqType() != nil)?
DeclaresRequest(type) == type # "none"

\* A decoder test that lets every body through.
DecodeFailed_Never(e) == FALSE

\* A decoder test that takes end of input for a failure.
DecodeFailed_EOFIsError(e) == e # NoErr

\* The test of the decoder's error: end of input is not a failure.
DecodeFailed(e) == e # NoErr /\ e # EOF

\* A decode error built without a status code.
BadBody_NoCode(type, e) ==
    Errorc(0, <<"failed to decode body into ", type, ": ">> \o ErrText(e))

\* The error of a body that does not decode: bad request, naming the type.
BadBody(type, e) ==
    Errorc(StatusBadRequest, <<"failed to decode body into ", type, ": ">> \o ErrText(e))

\* A validation error wrapped so that it keeps its own code.
InvalidRequest_KeepsCode(e) == Wrapf(e, <<"invalid request: ">>)

\* The error of a failed validation: bad request, whatever e carries.
InvalidRequest(e) == Errorc(StatusBadRequest, <<"invalid request: ">> \o ErrText(e))

\* A handler error rebuilt from its text, which loses its code.
HandlerFailed_DropsCode(name, e) ==
    Errorc(0, name \o <<" handler failed">> \o <<", because ">> \o ErrText(e))

\* The error of a failed handler: wrapped with the operation name.
HandlerFailed(name, e) == Wrapf(e, name \o <<" handler failed">>)

\* The handler invoked without a context being made for the request.
HandleCalls_NoContext == <<"Handle">>

\* The calls of the handling stage: a fresh context, then the handler.
HandleCalls == <<"NewContext", "Handle">>

\* A response test that takes a nil response for one to serialize.
HasResponse_Always(v) == TRUE

\* Is there a response to serialize (res != nil)?
HasResponse(v) == v # NilRes

\* A response whose content type is set after the body is written.
WriteJSON_HeaderAfterWrite(w0, bytes) ==
    HeaderSet(Write(w0, bytes), "Content-Type", "application/json")

\* The success encoder's writes: the content type, then the bytes.
WriteJSON(w0, bytes) ==
    Write(HeaderSet(w0, "Content-Type", "application/json"), bytes)

\* ------------------------------------------------------ the error translator
\* A translator that takes any code a structured error carries.
ResolveStatus_AnyCode(e) ==
    IF e.k = "IError" THEN e.code ELSE StatusInternalServerError

\* The status the deferred translator resolves for a non-nil error.
ResolveStatus(e) ==
    IF e.k = "IError" /\ StatusText(e.code) # "" THEN e.code
    ELSE StatusInternalServerError

\* A severity test that leaves status 500 itself out.
IsServerError_Above500(code) == code > 500

\* Is the resolved status logged at error severity (errCode >= 500)?
IsServerError(code) == code >= 500

\* A log line of the package logger.
LogEntry(level, fmt, m, p, code, e) ==
    [level |-> level, fmt |-> fmt, method |-> m, path |-> p, code |-> code, err |-> e]

\* --------------------------------------------------------------- the inputs
Methods == {"GET", "POST"}

PathChars == {"/", "a", "b"}

\* Every URL path of at most MaxPathLen characters.
Paths == UNION {[1..n -> PathChars] : n \in 0..MaxPathLen}

\* One-member JSON object text.
Obj(key, val) == <<"{", key, ":", val, "}">>

\* The request bodies tried: empty, blank, truncated, garbage, a bare value,
\* and objects with and without the name field.
Bodies ==
    { <<>>, <<" ">>, <<"{">>, <<"x">>, <<"7">>, <<"null">>, <<"{", "}">>,
      <<"{", "\"name\"", "}">>, <<"{", "\"name\"", ":">>,
      Obj("\"name\"", "\"\""), Obj("\"name\"", "\"x\""), Obj("\"name\"", "\"bad\""),
      Obj("\"other\"", "\"x\""), Obj("\"name\"", "7"), Obj("\"name\"", "null") }

\* The codes a handler's structured error may carry: unset, recognized ones
\* below and above 400, and codes http.StatusText does not know.
ErrCodes == {-1, 0, 101, 200, 302, 306, 400, 404, 409, 500, 503, 600}

HandlerErrs ==
    {PlainError(<<"boom">>)} \cup {Errorc(c, <<"refused">>) : c \in ErrCodes}

\* The values a handler may respond with; "chan" cannot be serialized.
ResValues ==
    { [t |-> "string", v |-> <<"h", "i">>], [t |-> "string", v |-> <<"\"", "\\">>],
      [t |-> "object", v |-> <<"true">>], [t |-> "object", v |-> <<"false">>],
      [t |-> "nilptr", v |-> <<>>], [t |-> "chan", v |-> <<>>] }

\* What oper.Handle may return: (res, err), each possibly nil.
HandlerOutcomes ==
    [res : ResValues \cup {NilRes}, err : HandlerErrs \cup {NoErr}]

\* ------------------------------------------------------------------ Config
\* errors.Errorf(format, ...): a structured error without a code.
Errorf(msg) == Errorc(0, msg)

DigitChars == <<"0", "1", "2", "3", "4", "5", "6", "7", "8", "9">>

RECURSIVE Digits(_)
\* The decimal digits of a natural number.
Digits(n) ==
    IF n < 10 THEN <<DigitChars[n + 1]>>
    ELSE Digits(n \div 10) \o <<DigitChars[(n % 10) + 1]>>

\* What %d prints of an int.
FormatInt(n) == IF n < 0 THEN <<"-">> \o Digits(0 - n) ELSE Digits(n)

\* A Validate that lets port 0 through.
ConfigValidate_ZeroPortOk(c) ==
    IF c.Addr = <<>> THEN Errorf(<<"missing addr">>)
    ELSE IF c.Port < 0 THEN Errorf(<<"negative port:">> \o FormatInt(c.Port))
    ELSE NoErr

\* Config.Validate: the address, then the port, must be given.
ConfigValidate(c) ==
    IF c.Addr = <<>> THEN Errorf(<<"missing addr">>)
    ELSE IF c.Port = 0 THEN Errorf(<<"missing port">>)
    ELSE IF c.Port < 0 THEN Errorf(<<"negative port:">> \o FormatInt(c.Port))
    ELSE NoErr

\* Config.Create: the address the server listens on, "<Addr>:<Port>".
ConfigCreate(c) == c.Addr \o <<":">> \o FormatInt(c.Port)

\* The addresses tried: none, a host name, a dotted address.
Addrs ==
    { <<>>, <<"h">>, <<"h", "o", "s", "t">>, <<"0", ".", "0", ".", "0", ".", "0">>,
      <<":", ":">> }

Ports == (0 - MaxPort)..MaxPort

Configs == [Addr : Addrs, Port : Ports]

\* The configuration the server that takes the requests was created from.
ServingConfig == [Addr |-> <<"h">>, Port |-> MaxPort]

\* ------------------------------------------------------------------ state
VARIABLES
    pc,        \* where each request is in ServeHTTP
    method,    \* httpReq.Method
    path,      \* httpReq.URL.Path
    body,      \* httpReq.Body
    err,       \* the err variable the deferred translator reads
    operName,  \* the operation name taken from the path
    oper,      \* the operation found in the registry
    reqPtr,    \* the value reqPtrValue points to
    req,       \* the request handed to the handler
    res,       \* the handler's response
    herr,      \* the error the handler returned, before it is wrapped
    w,         \* httpRes
    errCode,   \* the status the translator resolved, 0 before it has
    failed,    \* the stage that ended the pipeline with an error
    calls,     \* the calls made to collaborators, in order
    handled,   \* the request values the handler was invoked with, in order
    stages,    \* the stages the request has entered, in order
    log,       \* the log lines written for the request
    cfg,       \* the Config
    cfgIn,     \* the Config as it was given
    cfgPc,     \* how far the Config has come: new, validated, created
    cfgErr,    \* what Config.Validate returned
    srvAddr    \* server.addr

reqVars == <<pc, method, path, body, err, operName, oper, reqPtr, req, res, herr, w,
             errCode, failed, calls, handled, stages, log>>

cfgVars == <<cfg, cfgIn, cfgPc, cfgErr, srvAddr>>

vars == <<reqVars, cfgVars>>

\* No request is open.
InitRequests ==
    /\ pc = [r \in Reqs |-> "idle"]
    /\ method = [r \in Reqs |-> ""]
    /\ path = [r \in Reqs |-> <<>>]
    /\ body = [r \in Reqs |-> <<>>]
    /\ err = [r \in Reqs |-> NoErr]
    /\ operName = [r \in Reqs |-> <<>>]
    /\ oper = [r \in Reqs |-> NoOper]
    /\ reqPtr = [r \in Reqs |-> Absent]
    /\ req = [r \in Reqs |-> Absent]
    /\ res = [r \in Reqs |-> NilRes]
    /\ herr = [r \in Reqs |-> NoErr]
    /\ w = [r \in Reqs |-> NewWriter]
    /\ errCode = [r \in Reqs |-> 0]
    /\ failed = [r \in Reqs |-> "none"]
    /\ calls = [r \in Reqs |-> <<>>]
    /\ handled = [r \in Reqs |-> <<>>]
    /\ stages = [r \in Reqs |-> <<>>]
    /\ log = [r \in Reqs |-> <<>>]

\* A server created from a valid Config takes the requests.
Init ==
    /\ InitRequests
    /\ cfg = ServingConfig
    /\ cfgIn = ServingConfig
    /\ cfgPc = "created"
    /\ cfgErr = ConfigValidate(ServingConfig)
    /\ srvAddr = ConfigCreate(ServingConfig)

\* ---------------------------------------------------------------- ServeHTTP
\* The transport calls ServeHTTP: the request line is logged, err is nil.
BeginWith(r, m, p, b) ==
    /\ UNCHANGED cfgVars
    /\ pc[r] = "idle"
    /\ pc' = [pc EXCEPT ![r] = "parse"]
    /\ method' = [method EXCEPT ![r] = m]
    /\ path' = [path EXCEPT ![r] = p]
    /\ body' = [body EXCEPT ![r] = b]
    /\ err' = [err EXCEPT ![ErrSlot(r)] = NoErr]
    /\ log' = [log EXCEPT ![r] = Append(@, LogEntry("info", "HTTP %s %s", m, p, 0, NoErr))]
    /\ UNCHANGED <<operName, oper, reqPtr, req, res, herr, w, errCode, failed, calls, handled, stages>>

\* Requests are taken one at a time: a request begins when no other is open.
Begin(r) ==
    /\ \A q \in Reqs \ {r} : pc[q] = "idle"
    /\ \E m \in Methods, p \in Paths, b \in Bodies : BeginWith(r, m, p, b)

\* The operation name is what follows the leading "/" of the path.
ParsePath(r) ==
    /\ UNCHANGED cfgVars
    /\ pc[r] = "parse"
    /\ stages' = [stages EXCEPT ![r] = Append(@, "Parsing")]
    /\ LET names == SplitN2(path[r])
       IN  IF ParseFails(names)
           THEN /\ err' = [err EXCEPT ![ErrSlot(r)] =
                       Errorc(StatusBadRequest, <<"URL does not start with /<operName>">>)]
                /\ failed' = [failed EXCEPT ![r] = "parse"]
                /\ pc' = [pc EXCEPT ![r] = "translate"]
                /\ UNCHANGED operName
           ELSE /\ operName' = [operName EXCEPT ![r] = names[2]]
                /\ pc' = [pc EXCEPT ![r] = "lookup"]
                /\ UNCHANGED <<err, failed>>
    /\ UNCHANGED <<method, path, body, oper, reqPtr, req, res, herr, w, errCode, calls, handled, log>>

\* The registry is asked for the operation; a miss lists the known names.
Lookup(r) ==
    /\ UNCHANGED cfgVars
    /\ pc[r] = "lookup"
    /\ stages' = [stages EXCEPT ![r] = Append(@, "Lookup")]
    /\ LET o == Oper(operName[r])
       IN  IF o = NoOper
           THEN /\ err' = [err EXCEPT ![ErrSlot(r)] = UnknownOperation(operName[r])]
                /\ failed' = [failed EXCEPT ![r] = "lookup"]
                /\ calls' = [calls EXCEPT ![r] = @ \o <<"Oper", "OperNames">>]
                /\ pc' = [pc EXCEPT ![r] = "translate"]
                /\ UNCHANGED oper
           ELSE /\ oper' = [oper EXCEPT ![r] = o]
                /\ calls' = [calls EXCEPT ![r] = Append(@, "Oper")]
                /\ pc' = [pc EXCEPT ![r] = "decode"]
                /\ UNCHANGED <<err, failed>>
    /\ UNCHANGED <<method, path, body, operName, reqPtr, req, res, herr, w, errCode, handled, log>>

\* The body is decoded into a fresh value of the declared request type; an
\* operation without one skips decoding and validation.
DecodeBody(r) ==
    /\ UNCHANGED cfgVars
    /\ pc[r] = "decode"
    /\ LET type == ReqType(oper[r])
           d == Decode(type, body[r])
       IN  IF ~DeclaresRequest(type)
           THEN /\ pc' = [pc EXCEPT ![r] = "handle"]
                /\ UNCHANGED <<err, failed, calls, reqPtr, stages>>
           ELSE /\ stages' = [stages EXCEPT ![r] = Append(@, "Decoding")]
                /\ calls' = [calls EXCEPT ![r] = Append(@, "Decode")]
                /\ reqPtr' = [reqPtr EXCEPT ![r] = d.val]
                /\ IF DecodeFailed(d.err)
                   THEN /\ err' = [err EXCEPT ![ErrSlot(r)] = BadBody(type, d.err)]
                        /\ failed' = [failed EXCEPT ![r] = "decode"]
                        /\ pc' = [pc EXCEPT ![r] = "translate"]
                   ELSE /\ err' = [err EXCEPT ![ErrSlot(r)] = d.err]
                        /\ pc' = [pc EXCEPT ![r] = "validate"]
                        /\ UNCHANGED failed
    /\ UNCHANGED <<method, path, body, operName, oper, req, res, herr, w, errCode, handled, log>>

\* A decoded value that implements ms.Validator is validated.
Validate(r) ==
    /\ UNCHANGED cfgVars
    /\ pc[r] = "validate"
    /\ stages' = [stages EXCEPT ![r] = Append(@, "Validating")]
    /\ LET e == ValidateReq(reqPtr[r])
       IN  IF HasValidator(ReqType(oper[r]))
           THEN /\ calls' = [calls EXCEPT ![r] = Append(@, "Validate")]
                /\ IF e # NoErr
                   THEN /\ err' = [err EXCEPT ![ErrSlot(r)] = InvalidRequest(e)]
                        /\ failed' = [failed EXCEPT ![r] = "validate"]
                        /\ pc' = [pc EXCEPT ![r] = "translate"]
                        /\ UNCHANGED req
                   ELSE /\ err' = [err EXCEPT ![ErrSlot(r)] = NoErr]
                        /\ req' = [req EXCEPT ![r] = reqPtr[r]]
                        /\ pc' = [pc EXCEPT ![r] = "handle"]
                        /\ UNCHANGED failed
           ELSE /\ req' = [req EXCEPT ![r] = reqPtr[r]]
                /\ pc' = [pc EXCEPT ![r] = "handle"]
                /\ UNCHANGED <<err, failed, calls>>
    /\ UNCHANGED <<method, path, body, operName, oper, reqPtr, res, herr, w, errCode, handled, log>>

\* A context is made and the handler invoked; its error is wrapped with the
\* operation name.
HandleWith(r, out) ==
    /\ UNCHANGED cfgVars
    /\ pc[r] = "handle"
    /\ stages' = [stages EXCEPT ![r] = Append(@, "Handling")]
    /\ calls' = [calls EXCEPT ![r] = @ \o HandleCalls]
    /\ handled' = [handled EXCEPT ![r] = Append(@, req[r])]
    /\ res' = [res EXCEPT ![r] = out.res]
    /\ herr' = [herr EXCEPT ![ErrSlot(r)] = out.err]
    /\ IF out.err # NoErr
       THEN /\ err' = [err EXCEPT ![ErrSlot(r)] = HandlerFailed(operName[r], out.err)]
            /\ failed' = [failed EXCEPT ![r] = "handle"]
            /\ pc' = [pc EXCEPT ![r] = AfterHandlerError]
       ELSE /\ err' = [err EXCEPT ![ErrSlot(r)] = NoErr]
            /\ pc' = [pc EXCEPT ![r] = "encode"]
            /\ UNCHANGED failed
    /\ UNCHANGED <<method, path, body, operName, oper, reqPtr, req, w, errCode, log>>

Handle(r) == \E out \in HandlerOutcomes : HandleWith(r, out)

\* A non-nil response is serialized and written, whatever Marshal returned.
Encode(r) ==
    /\ UNCHANGED cfgVars
    /\ pc[r] = "encode"
    /\ stages' = [stages EXCEPT ![r] = Append(@, "Encoding")]
    /\ IF HasResponse(res[r])
       THEN LET m == Marshal(res[r])
            IN  /\ err' = [err EXCEPT ![ErrSlot(r)] = m.err]
                /\ failed' = [failed EXCEPT ![r] = IF m.err # NoErr THEN "encode" ELSE @]
                /\ w' = [w EXCEPT ![r] = WriteJSON(@, m.bytes)]
                /\ calls' = [calls EXCEPT ![r] = @ \o <<"Marshal", "Header.Set", "Write">>]
       ELSE UNCHANGED <<err, failed, w, calls>>
    /\ pc' = [pc EXCEPT ![r] = "translate"]
    /\ UNCHANGED <<method, path, body, operName, oper, reqPtr, req, res, herr, errCode, handled, log>>

\* The deferred function: a non-nil err becomes a status and a text body.
Translate(r) ==
    /\ UNCHANGED cfgVars
    /\ pc[r] = "translate"
    /\ stages' = [stages EXCEPT ![r] = Append(@, "Responding")]
    /\ IF err[ErrSlot(r)] # NoErr
       THEN LET code == ResolveStatus(err[ErrSlot(r)])
                l1 == IF err[ErrSlot(r)].k = "IError"
                      THEN Append(log[r], LogEntry("info", "code:%v->%v from err:%+v",
                                                   "", <<>>, code, err[ErrSlot(r)]))
                      ELSE log[r]
                l2 == IF IsServerError(code)
                      THEN Append(l1, LogEntry("error", "HTTP %s %s -> %d %s: %+v",
                                               method[r], path[r], code, err[ErrSlot(r)]))
                      ELSE l1
            IN  /\ errCode' = [errCode EXCEPT ![r] = code]
                /\ log' = [log EXCEPT ![r] = l2]
                /\ w' = [w EXCEPT ![r] = HttpError(@, ErrText(err[ErrSlot(r)]), code)]
                /\ calls' = [calls EXCEPT ![r] = Append(@, "http.Error")]
       ELSE UNCHANGED <<errCode, log, w, calls>>
    /\ pc' = [pc EXCEPT ![r] = "done"]
    /\ UNCHANGED <<method, path, body, err, operName, oper, reqPtr, req, res, herr, failed, handled>>

\* The transport sends the response and the slot is free for a new request.
Finish(r) ==
    /\ UNCHANGED cfgVars
    /\ pc[r] = "done"
    /\ pc' = [pc EXCEPT ![r] = "idle"]
    /\ method' = [method EXCEPT ![r] = ""]
    /\ path' = [path EXCEPT ![r] = <<>>]
    /\ body' = [body EXCEPT ![r] = <<>>]
    /\ err' = [err EXCEPT ![ErrSlot(r)] = NoErr]
    /\ operName' = [operName EXCEPT ![r] = <<>>]
    /\ oper' = [oper EXCEPT ![r] = NoOper]
    /\ reqPtr' = [reqPtr EXCEPT ![r] = Absent]
    /\ req' = [req EXCEPT ![r] = Absent]
    /\ res' = [res EXCEPT ![r] = NilRes]
    /\ herr' = [herr EXCEPT ![ErrSlot(r)] = NoErr]
    /\ w' = [w EXCEPT ![r] = NewWriter]
    /\ errCode' = [errCode EXCEPT ![r] = 0]
    /\ failed' = [failed EXCEPT ![r] = "none"]
    /\ calls' = [calls EXCEPT ![r] = <<>>]
    /\ handled' = [handled EXCEPT ![r] = <<>>]
    /\ stages' = [stages EXCEPT ![r] = <<>>]
    /\ log' = [log EXCEPT ![r] = <<>>]

Next ==
    \E r \in Reqs :
        \/ Begin(r)
        \/ ParsePath(r)
        \/ Lookup(r)
        \/ DecodeBody(r)
        \/ Validate(r)
        \/ Handle(r)
        \/ Encode(r)
        \/ Translate(r)
        \/ Finish(r)

Spec == Init /\ [][Next]_vars

\* ------------------------------------------------------ a request on its own
\* The response of a pipeline that ended with error e, and the handler's
\* arguments h.
Refused(e, h) ==
    [w |-> HttpError(NewWriter, ErrText(e), ResolveStatus(e)), handled |-> h]

\* ServeHTTP run from start to return for one request, with nothing else
\* going on: the response written and the requests handed to the handler,
\* for path p, body b and a handler that returns out.
ServeAlone(p, b, out) ==
    LET names == SplitN2(p)
    IN  IF ParseFails(names)
        THEN Refused(Errorc(StatusBadRequest, <<"URL does not start with /<operName>">>), <<>>)
        ELSE LET name == names[2]
                 o == Oper(name)
             IN  IF o = NoOper THEN Refused(UnknownOperation(name), <<>>)
                 ELSE LET type == ReqType(o)
                          d == Decode(type, b)
                          rq == IF DeclaresRequest(type) THEN d.val ELSE Absent
                          m == Marshal(out.res)
                          w1 == WriteJSON(NewWriter, m.bytes)
                      IN  IF DeclaresRequest(type) /\ DecodeFailed(d.err)
                          THEN Refused(BadBody(type, d.err), <<>>)
                          ELSE IF /\ DeclaresRequest(type) /\ HasValidator(type)
                                  /\ ValidateReq(d.val) # NoErr
                          THEN Refused(InvalidRequest(ValidateReq(d.val)), <<>>)
                          ELSE IF out.err # NoErr
                          THEN Refused(HandlerFailed(name, out.err), <<rq>>)
                          ELSE IF ~HasResponse(out.res)
                          THEN [w |-> NewWriter, handled |-> <<rq>>]
                          ELSE IF m.err # NoErr
                          THEN [w |-> HttpError(w1, ErrText(m.err), ResolveStatus(m.err)),
                                handled |-> <<rq>>]
                          ELSE [w |-> w1, handled |-> <<rq>>]

\* ------------------------------------------------- requests side by side
\* The requests that meet: an operation without a request type, one that
\* validates, and an unknown one; with no body or a whole one.
ConcPaths == { <<"/", "a">>, <<"/", "a", "b">>, <<"/", "b", "b">> }

ConcBodies == { <<>>, Obj("\"name\"", "\"x\"") }

\* What their handlers return: a response, an error with a code, and a
\* response that cannot be serialized.
ConcOutcomes ==
    { [res |-> [t |-> "string", v |-> <<"h", "i">>], err |-> NoErr],
      [res |-> NilRes, err |-> Errorc(409, <<"refused">>)],
      [res |-> [t |-> "chan", v |-> <<>>], err |-> NoErr] }

\* The transport calls ServeHTTP for a connection while others are open.
BeginConc(r) ==
    \E p \in ConcPaths, b \in ConcBodies : BeginWith(r, "GET", p, b)

HandleConc(r) == \E out \in ConcOutcomes : HandleWith(r, out)

\* The steps of ServeHTTP for request r, from its first to its return.
Run(r) ==
    \/ ParsePath(r)
    \/ Lookup(r)
    \/ DecodeBody(r)
    \/ Validate(r)
    \/ HandleConc(r)
    \/ Encode(r)
    \/ Translate(r)

NextConc ==
    \E r \in Reqs :
        \/ BeginConc(r)
        \/ Run(r)
        \/ Finish(r)

\* Every interleaving of the requests' steps; a call of ServeHTTP that can
\* take a step takes it, since its collaborators return.
SpecConc == Init /\ [][NextConc]_vars /\ \A r \in Reqs : WF_vars(Run(r))

\* ------------------------------------------------------- Config on its own
\* Any Config may be given; nothing was validated or created yet.
InitConfig ==
    /\ InitRequests
    /\ cfg \in Configs
    /\ cfgIn = cfg
    /\ cfgPc = "new"
    /\ cfgErr = NoErr
    /\ srvAddr = <<>>

\* c.Validate(): the receiver is a copy, the Config stays as it is.
ValidateConfig ==
    /\ cfgPc = "new"
    /\ cfgErr' = ConfigValidate(cfg)
    /\ cfgPc' = "validated"
    /\ UNCHANGED <<cfg, cfgIn, srvAddr>>
    /\ UNCHANGED reqVars

\* c.Create(ms): a server for "<Addr>:<Port>", whatever the Config holds.
CreateServer ==
    /\ cfgPc = "validated"
    /\ srvAddr' = ConfigCreate(cfg)
    /\ cfgPc' = "created"
    /\ UNCHANGED <<cfg, cfgIn, cfgErr>>
    /\ UNCHANGED reqVars

NextConfig == ValidateConfig \/ CreateServer

SpecConfig == InitConfig /\ [][NextConfig]_vars

\* ============================================================== properties
\* ServeHTTP has returned for request r and its response stands.
Returned(r) == pc[r] = "done"

\* Was the collaborator call c made for request r?
Called(r, c) == \E i \in 1..Len(calls[r]) : calls[r][i] = c

\* s holds t as a contiguous run of tokens.
Contains(s, t) ==
    \E i \in 0..(Len(s) - Len(t)) : SubSeq(s, i + 1, i + Len(t)) = t

\* The first path segment: the text between the leading "/" and the next "/"
\* or the end of the path.
FirstSegment(p) ==
    LET rest == Tail(p)
        stops == {i \in 1..Len(rest) : rest[i] = "/"}
        n == IF stops = {} THEN Len(rest)
             ELSE (CHOOSE i \in stops : \A j \in stops : i <= j) - 1
    IN  SubSeq(rest, 1, n)

\* A path that does not start with "/" or whose first segment is empty.
Malformed(p) == p = <<>> \/ p[1] # "/" \/ FirstSegment(p) = <<>>

\* C1: when json.Marshal of the handler's response fails, the response has
\* status 500 and the error's message as body, like any failure without a code.
C1_MarshalFailureIs500 ==
    \A r \in Reqs :
        (Returned(r) /\ Called(r, "Marshal") /\ Marshal(res[r]).err # NoErr)
        => /\ ResponseStatus(w[r]) = StatusInternalServerError
           /\ w[r].body = ErrText(Marshal(res[r]).err) \o <<"\n">>

\* C2: a path that does not start with "/" or has an empty first segment gets
\* status 400; the registry is not consulted and no handler is invoked.
C2_MalformedPathIs400 ==
    \A r \in Reqs :
        (Returned(r) /\ Malformed(path[r]))
        => /\ ResponseStatus(w[r]) = StatusBadRequest
           /\ ~Called(r, "Oper")
           /\ ~Called(r, "OperNames")
           /\ handled[r] = <<>>

\* C3: a response is a 2xx status with a JSON body or none when no stage
\* failed, and a status of 400 or above with the error text when one did.
C3_SuccessOrErrorStatus ==
    \A r \in Reqs :
        Returned(r)
        => IF failed[r] = "none"
           THEN /\ ResponseStatus(w[r]) \in 200..299
                /\ \/ w[r].body = <<>>
                   \/ /\ w[r].body = Marshal(res[r]).bytes
                      /\ w[r].sent["Content-Type"] = "application/json"
           ELSE /\ ResponseStatus(w[r]) >= 400
                /\ w[r].body = ErrText(err[r]) \o <<"\n">>
                /\ w[r].sent["Content-Type"] = "text/plain; charset=utf-8"

\* The request type the operation found for r declares ("none" without one).
DeclaredType(r) == IF oper[r] = NoOper THEN "none" ELSE ReqType(oper[r])

\* The body of r holds no JSON value: the decoder reports end of input.
EmptyBody(r) == Decode(DeclaredType(r), body[r]).err = EOF

\* C4 as stated: for every declared request type, an empty body causes no
\* error and the handler is invoked with the zero value of the type.
C4_EmptyBodyAlwaysHandled ==
    \A r \in Reqs :
        (Returned(r) /\ DeclaredType(r) # "none" /\ EmptyBody(r))
        => /\ handled[r] = <<Zero(DeclaredType(r))>>
           /\ failed[r] \notin {"decode", "validate"}

\* The zero value of the type passes validation, or the type has no validator.
ZeroIsValid(type) == ~HasValidator(type) \/ ValidateReq(Zero(type)) = NoErr

\* C4 (amended): an empty body is no decode error; the zero value of the
\* declared type is validated like any decoded value: when it passes (or the
\* type has no Validate) the handler is invoked with it, and when Validate
\* rejects it the response is 400 "invalid request" and no handler runs.
C4_EmptyBodyZeroValue ==
    \A r \in Reqs :
        (Returned(r) /\ DeclaredType(r) # "none" /\ EmptyBody(r))
        => /\ failed[r] # "decode"
           /\ reqPtr[r] = Zero(DeclaredType(r))
           /\ IF ZeroIsValid(DeclaredType(r))
              THEN handled[r] = <<Zero(DeclaredType(r))>> /\ failed[r] # "validate"
              ELSE /\ handled[r] = <<>>
                   /\ failed[r] = "validate"
                   /\ ResponseStatus(w[r]) = StatusBadRequest
                   /\ Contains(w[r].body, <<"invalid request: ">>)

\* An empty body reached the handler of an operation whose type validates.
C4_Witness ==
    \E r \in Reqs :
        /\ Returned(r) /\ EmptyBody(r)
        /\ HasValidator(DeclaredType(r))
        /\ handled[r] = <<Zero(DeclaredType(r))>>

C6_ResolvedStatus ==
    \A r \in Reqs :
        (Returned(r) /\ err[r] # NoErr)
        => /\ Called(r, "http.Error")
           /\ IF err[r].k = "IError" /\ err[r].code \in RecognizedCodes
              THEN errCode[r] = err[r].code
              ELSE errCode[r] = StatusInternalServerError
           /\ (herr[r] # NoErr /\ (herr[r].k # "IError" \/ herr[r].code = 0))
              => ResponseStatus(w[r]) = StatusInternalServerError

\* A structured handler error with an unrecognized code was answered with 500.
C6_Witness ==
    \E r \in Reqs :
        /\ Returned(r) /\ herr[r].k = "IError"
        /\ herr[r].code \notin RecognizedCodes \cup {0}
        /\ errCode[r] = StatusInternalServerError

\* C7: a well-formed path whose operation name is not registered gets status
\* 404 and a body with every registered name, joined in registry order;
\* nothing is decoded, no context is made and no handler is invoked.
C7_UnknownOperationIs404 ==
    \A r \in Reqs :
        (Returned(r) /\ ~Malformed(path[r]) /\ Oper(FirstSegment(path[r])) = NoOper)
        => /\ ResponseStatus(w[r]) = StatusNotFound
           /\ Contains(w[r].body, Join(OperNames, <<"|">>))
           /\ \A i \in 1..Len(OperNames) : Contains(w[r].body, OperNames[i])
           /\ calls[r] = <<"Oper", "OperNames", "http.Error">>
           /\ handled[r] = <<>>

\* An unregistered name was looked up and refused.
C7_Witness ==
    \E r \in Reqs :
        /\ Returned(r) /\ path[r] = <<"/", "b", "b">>
        /\ ResponseStatus(w[r]) = StatusNotFound

\* The body of r does not parse as JSON into the declared type.
UnparsableBody(r) ==
    LET e == Decode(DeclaredType(r), body[r]).err
    IN  e # NoErr /\ e # EOF

\* C8: a non-empty body that does not parse into the declared request type
\* gets status 400 with a message naming the type; neither the validator nor
\* the handler is invoked.
C8_BadBodyIs400 ==
    \A r \in Reqs :
        (Returned(r) /\ DeclaredType(r) # "none" /\ UnparsableBody(r))
        => /\ body[r] # <<>>
           /\ ResponseStatus(w[r]) = StatusBadRequest
           /\ Contains(w[r].body, <<"failed to decode body into ", DeclaredType(r)>>)
           /\ ~Called(r, "Validate")
           /\ ~Called(r, "NewContext")
           /\ handled[r] = <<>>

\* A truncated body was refused for an operation whose type validates.
C8_Witness ==
    \E r \in Reqs :
        /\ Returned(r) /\ body[r] = <<"{">> /\ DeclaredType(r) = "CreateReq"
        /\ ResponseStatus(w[r]) = StatusBadRequest

\* C9: when the decoded value implements Validate and Validate fails, the
\* response has status 400 and "invalid request" in its body, the handler is
\* not invoked, and the validation error's own code is not used.
C9_InvalidRequestIs400 ==
    \A r \in Reqs :
        (Returned(r) /\ Called(r, "Validate") /\ ValidateReq(reqPtr[r]) # NoErr)
        => /\ ResponseStatus(w[r]) = StatusBadRequest
           /\ errCode[r] = StatusBadRequest
           /\ Contains(w[r].body, <<"invalid request: ">>)
           /\ Contains(w[r].body, ErrText(ValidateReq(reqPtr[r])))
           /\ ~Called(r, "NewContext")
           /\ handled[r] = <<>>

\* A validation error carrying 409 was answered with 400.
C9_Witness ==
    \E r \in Reqs :
        /\ Returned(r) /\ Called(r, "Validate")
        /\ ValidateReq(reqPtr[r]).k = "IError" /\ ValidateReq(reqPtr[r]).code = 409
        /\ ResponseStatus(w[r]) = StatusBadRequest

RECURSIVE Unescape(_)
\* The characters a JSON string literal's inside stands for.
Unescape(s) ==
    IF s = <<>> THEN <<>>
    ELSE IF Head(s) = "\\" /\ Len(s) >= 2 THEN <<s[2]>> \o Unescape(Tail(Tail(s)))
    ELSE <<Head(s)>> \o Unescape(Tail(s))

\* The value a client reads back from a JSON response body.
ParseJSON(bytes) ==
    IF bytes = <<"null">> THEN [t |-> "nilptr", v |-> <<>>]
    ELSE IF Len(bytes) >= 2 /\ bytes[1] = "\"" /\ bytes[Len(bytes)] = "\""
         THEN [t |-> "string", v |-> Unescape(SubSeq(bytes, 2, Len(bytes) - 1))]
    ELSE IF Len(bytes) = 8 /\ bytes[1] = "{" /\ SubSeq(bytes, 2, 6) = <<"\"", "o", "k", "\"", ":">>
         THEN [t |-> "object", v |-> <<bytes[7]>>]
    ELSE [t |-> "invalid", v |-> bytes]

\* The handler of r returned a non-nil response and a nil error.
HandlerResponded(r) == Called(r, "Handle") /\ herr[r] = NoErr /\ res[r] # NilRes

\* What C10 promises of a response.
JSONResponse(r) ==
    /\ ResponseStatus(w[r]) = StatusOK
    /\ w[r].sent["Content-Type"] = "application/json"
    /\ w[r].body = Marshal(res[r]).bytes
    /\ ParseJSON(w[r].body) = res[r]
    /\ ~Called(r, "http.Error")

\* C10 as stated: whenever the handler returns a non-nil response and a nil
\* error, the response is 200, application/json, its body exactly the JSON of
\* the handler's response, and the error translator writes nothing.
C10_ResponseAlwaysJSON ==
    \A r \in Reqs : (Returned(r) /\ HandlerResponded(r)) => JSONResponse(r)

\* C10 (amended): the same, for a response json.Marshal can serialize.
C10_SerializableResponseJSON ==
    \A r \in Reqs :
        (Returned(r) /\ HandlerResponded(r) /\ Marshal(res[r]).err = NoErr)
        => JSONResponse(r)

\* A string response that needs escaping went out as JSON.
C10_Witness ==
    \E r \in Reqs :
        /\ Returned(r) /\ HandlerResponded(r)
        /\ res[r] = [t |-> "string", v |-> <<"\"", "\\">>]
        /\ w[r].body = <<"\"", "\\", "\"", "\\", "\\", "\"">>

\* C11: the name looked up in the registry is the first path segment after
\* the leading "/"; further segments are not part of the operation name.
C11_LookupIsFirstSegment ==
    \A r \in Reqs :
        (Called(r, "Oper") /\ ~Malformed(path[r])) => operName[r] = FirstSegment(path[r])

\* The handler of r returned a nil response and a nil error.
HandlerSilent(r) == Called(r, "Handle") /\ herr[r] = NoErr /\ res[r] = NilRes

\* C12: when the handler returns a nil response and a nil error nothing is
\* written: no body, no Content-Type, no status; the default status applies.
C12_NilResponseWritesNothing ==
    \A r \in Reqs :
        (Returned(r) /\ HandlerSilent(r))
        => /\ w[r] = NewWriter
           /\ ~Called(r, "Marshal")
           /\ ~Called(r, "Header.Set")
           /\ ~Called(r, "Write")
           /\ ~Called(r, "http.Error")
           /\ ResponseStatus(w[r]) = StatusOK

\* A handler answered nil, nil and the request returned.
C12_Witness == \E r \in Reqs : Returned(r) /\ HandlerSilent(r)

\* How many times the call c was made for request r.
CallCount(r, c) == Cardinality({i \in 1..Len(calls[r]) : calls[r][i] = c})

\* The positions of call c in the calls of request r.
CallsAt(r, c) == {i \in 1..Len(calls[r]) : calls[r][i] = c}

\* C13: a response is written by the success encoder or by the error
\* translator, never both; the translator runs at most once, runs exactly
\* when a stage produced an error, and runs before anything is written.
C13_OneWriter ==
    \A r \in Reqs :
        /\ ~(Called(r, "Write") /\ Called(r, "http.Error"))
        /\ CallCount(r, "http.Error") <= 1
        /\ Returned(r) => (Called(r, "http.Error") <=> failed[r] # "none")
        /\ \A i \in CallsAt(r, "http.Error") :
               \A j \in 1..(i - 1) : calls[r][j] \notin {"Header.Set", "Write"}

\* The fixed order of the stages.
StageOrder ==
    <<"Parsing", "Lookup", "Decoding", "Validating", "Handling", "Encoding", "Responding">>

\* The place of a stage in the fixed order.
Rank(st) == CHOOSE i \in 1..Len(StageOrder) : StageOrder[i] = st

\* The stage in which the pipeline of r failed, as the failed variable names it.
FailedStage(r) ==
    CASE failed[r] = "parse" -> "Parsing"
      [] failed[r] = "lookup" -> "Lookup"
      [] failed[r] = "decode" -> "Decoding"
      [] failed[r] = "validate" -> "Validating"
      [] failed[r] = "handle" -> "Handling"
      [] failed[r] = "encode" -> "Encoding"
      [] OTHER -> "none"

\* C14: the stages of a request are entered in the fixed order, none twice;
\* a stage that fails is followed by Responding alone; the handler is invoked
\* at most once, and only after parsing, lookup, decoding and validation
\* have succeeded.
C14_StagesInOrder ==
    \A r \in Reqs :
        /\ \A i, j \in 1..Len(stages[r]) :
               i < j => Rank(stages[r][i]) < Rank(stages[r][j])
        /\ Len(stages[r]) > 0 => stages[r][1] = "Parsing"
        /\ \A i \in 1..Len(stages[r]) :
               (stages[r][i] = FailedStage(r) /\ i < Len(stages[r]))
               => (i + 1 = Len(stages[r]) /\ stages[r][i + 1] = "Responding")
        /\ Returned(r) => stages[r][Len(stages[r])] = "Responding"
        /\ Len(handled[r]) <= 1
        /\ CallCount(r, "Handle") = Len(handled[r])
        /\ handled[r] # <<>>
           => /\ ~ParseFails(SplitN2(path[r]))
              /\ Oper(operName[r]) # NoOper
              /\ failed[r] \notin {"parse", "lookup", "decode", "validate"}
              /\ DeclaredType(r) # "none"
                 => /\ ~UnparsableBody(r)
                    /\ (HasValidator(DeclaredType(r)) => ValidateReq(handled[r][1]) = NoErr)

\* A request went through every stage.
C14_Witness ==
    \E r \in Reqs : Returned(r) /\ stages[r] = StageOrder

\* C15: for an operation without a request type nothing is decoded or
\* validated, the handler gets a nil request, and no body can cause a 400.
C15_NoRequestType ==
    \A r \in Reqs :
        (Returned(r) /\ oper[r] # NoOper /\ DeclaredType(r) = "none")
        => /\ ~Called(r, "Decode")
           /\ ~Called(r, "Validate")
           /\ reqPtr[r] = Absent
           /\ handled[r] = <<Absent>>
           /\ failed[r] \in {"none", "handle", "encode"}
           /\ ResponseStatus(w[r]) = StatusBadRequest => herr[r].code = StatusBadRequest

\* A malformed body went to an operation without a request type, unread.
C15_Witness ==
    \E r \in Reqs :
        /\ Returned(r) /\ oper[r] # NoOper /\ DeclaredType(r) = "none"
        /\ body[r] = <<"{">> /\ handled[r] = <<Absent>>

\* C16 as stated: NewContext is invoked exactly once for every request, and
\* before the handler.
C16_ContextForEveryRequest ==
    \A r \in Reqs :
        Returned(r)
        => /\ CallCount(r, "NewContext") = 1
           /\ \A i \in CallsAt(r, "NewContext"), j \in CallsAt(r, "Handle") : i < j

\* C16 (amended): NewContext is invoked at most once per request; it is
\* invoked exactly once, right before the handler, for every request that
\* reaches the handler, and not at all for a request that fails before.
C16_ContextBeforeHandler ==
    \A r \in Reqs :
        /\ CallCount(r, "NewContext") <= 1
        /\ CallCount(r, "NewContext") = CallCount(r, "Handle")
        /\ \A j \in CallsAt(r, "Handle") : j > 1 /\ calls[r][j - 1] = "NewContext"
        /\ (Returned(r) /\ failed[r] \in {"parse", "lookup", "decode", "validate"})
           => ~Called(r, "NewContext")

\* A handler ran with its context, and a refused request made none.
C16_Witness ==
    \E r \in Reqs :
        /\ Returned(r) /\ Called(r, "Handle") /\ CallCount(r, "NewContext") = 1

\* The log lines of request r after its request line.
OutcomeLog(r) == Tail(log[r])

\* C19: an error outcome resolved to 500 or above logs an error-severity
\* line with method, path, status and error; one resolved below 500 logs an
\* informational line and no error-severity line; a success logs nothing
\* beyond the request line.
C19_LogSeverity ==
    \A r \in Reqs :
        Returned(r)
        => /\ log[r][1] = LogEntry("info", "HTTP %s %s", method[r], path[r], 0, NoErr)
           /\ IF err[r] = NoErr THEN OutcomeLog(r) = <<>>
              ELSE IF errCode[r] >= 500
              THEN \E i \in 1..Len(OutcomeLog(r)) :
                       OutcomeLog(r)[i] = LogEntry("error", "HTTP %s %s -> %d %s: %+v",
                                                   method[r], path[r], errCode[r], err[r])
              ELSE /\ \E i \in 1..Len(OutcomeLog(r)) :
                          /\ OutcomeLog(r)[i].level = "info"
                          /\ OutcomeLog(r)[i].code = errCode[r]
                          /\ OutcomeLog(r)[i].err = err[r]
                   /\ \A i \in 1..Len(OutcomeLog(r)) : OutcomeLog(r)[i].level # "error"

\* A structured error resolved to 500 was logged at both severities.
C19_Witness ==
    \E r \in Reqs :
        /\ Returned(r) /\ errCode[r] = StatusInternalServerError
        /\ err[r].k = "IError" /\ err[r].code = StatusInternalServerError
        /\ Len(OutcomeLog(r)) = 2

\* C20: Config.Validate returns an error exactly when Addr is empty or Port
\* is zero or negative, reports an empty Addr whatever the Port, returns nil
\* for a non-empty Addr with a positive Port, and leaves the Config alone.
C20_ConfigValidate ==
    cfgPc # "new"
    => /\ (cfgErr # NoErr) <=> (cfgIn.Addr = <<>> \/ cfgIn.Port <= 0)
       /\ cfgIn.Addr = <<>> => cfgErr.msg = <<"missing addr">>
       /\ (cfgIn.Addr # <<>> /\ cfgIn.Port <= 0) => cfgErr.msg # <<"missing addr">>
       /\ cfg = cfgIn

\* A Config with neither address nor port was refused for its address.
C20_Witness ==
    /\ cfgPc = "validated"
    /\ cfgIn.Addr = <<>> /\ cfgIn.Port = 0
    /\ cfgErr.msg = <<"missing addr">>

\* What the handler of r returned (nil, nil while it has not been invoked).
Outcome(r) == [res |-> res[r], err |-> herr[r]]

\* The variables of request r that are its own: its err, its decoded value,
\* its response and what its handler was given.
Own(r) == <<err[r], operName[r], oper[r], reqPtr[r], req[r], res[r], w[r], handled[r]>>

\* C17: under every interleaving of concurrent requests each request's
\* response and handler arguments are those of the request handled alone,
\* and no step of one request changes another request's err, decoded value
\* or response.
C17_Isolation ==
    /\ [](\A r \in Reqs :
              Returned(r)
              => /\ w[r] = ServeAlone(path[r], body[r], Outcome(r)).w
                 /\ handled[r] = ServeAlone(path[r], body[r], Outcome(r)).handled)
    /\ [][\A r \in Reqs : pc'[r] = pc[r] => Own(r)' = Own(r)]_vars

\* Two requests are under way at once, one past its handler, one returned.
C17_Witness ==
    \E r, q \in Reqs :
        /\ r # q
        /\ Returned(r) /\ ResponseStatus(w[r]) = 409
        /\ pc[q] = "encode" /\ res[q] = [t |-> "string", v |-> <<"h", "i">>]

\* The place of a position of ServeHTTP in the run of a request.
PcRank(at) ==
    CASE at = "idle" -> 0
      [] at = "parse" -> 1
      [] at = "lookup" -> 2
      [] at = "decode" -> 3
      [] at = "validate" -> 4
      [] at = "handle" -> 5
      [] at = "encode" -> 6
      [] at = "translate" -> 7
      [] OTHER -> 8

\* C18: every request that enters ServeHTTP reaches its return, given that
\* the body read, the validator and the handler return; the dispatcher never
\* loops: each of its steps takes the request further on.
C18_Terminates ==
    /\ \A r \in Reqs : (pc[r] = "parse") ~> Returned(r)
    /\ [][\A r \in Reqs :
              (pc'[r] # pc[r] \/ calls'[r] # calls[r])
              => (PcRank(pc'[r]) > PcRank(pc[r]) \/ pc'[r] = "idle")]_vars

\* Every request slot has returned from a call that reached the handler.
C18_Witness ==
    \A r \in Reqs : Returned(r) /\ Called(r, "Handle")

====
